---- MODULE Spec2Model ----
(***************************************************************************)
(* Model of the two tensor implementations of the repository:              *)
(*   - src/tensor.h, src/tensor.cpp : the multi-dtype Tensor with an       *)
(*     explicit Stride, an ownership flag and defaulted copy/move          *)
(*     (driven by src/main_tensor.cpp);                                     *)
(*   - src/main_folder/tensor.h : the Float32/Int32 Tensor with the three  *)
(*     construction paths (nested data, flat data + shape, allocate-only). *)
(* size_t values are 64-bit unsigned numbers kept as five 15-bit limbs     *)
(* (least significant first), int32_t values are ordinary integers in      *)
(* -2^31 .. 2^31-1.                                                        *)
(***************************************************************************)
EXTENDS Integers, Sequences, FiniteSets, TLC

VARIABLES pc, tensors, heap, call, thrown, family, allocated_here, ctor_count,
          stensor, sheap

vars == <<pc, tensors, heap, call, thrown, family, allocated_here, ctor_count,
          stensor, sheap>>

-----------------------------------------------------------------------------
(* Bounds of the model *)

\* longest shape the constructor of src/tensor.cpp is tried with
MaxRank == 3
\* longest shape the constructors of src/main_folder/tensor.h are tried with
MaxRankS == 2
\* longest flat data vector
MaxFlat == 6
\* deepest nesting and longest vector of nested literal data
MaxDepth == 3
MaxLen == 2
\* number of Tensor objects a client holds at once
NSlots == 3
\* number of buffer allocations in one run
MaxBufs == 3

-----------------------------------------------------------------------------
(* size_t: 64-bit unsigned arithmetic on limbs *)

LimbBase == 2^15
TopLimbMod == 2^4
Limbs == 1..5

SzZero == <<0, 0, 0, 0, 0>>

\* a non-negative integer below 2^31 as a size_t
SzOfNat(n) == <<n % LimbBase, (n \div LimbBase) % LimbBase,
                n \div (LimbBase * LimbBase), 0, 0>>

\* static_cast<size_t>(a) of an int32_t a (sign-extended)
SzOfInt32(a) == <<a % LimbBase, (a \div LimbBase) % LimbBase,
                  (a \div (LimbBase * LimbBase)) % LimbBase,
                  IF a < 0 THEN LimbBase - 1 ELSE 0,
                  IF a < 0 THEN TopLimbMod - 1 ELSE 0>>

SzWrap(s) == [s EXCEPT ![5] = @ % TopLimbMod]

RECURSIVE SzAddFrom(_, _, _, _)
SzAddFrom(a, b, i, carry) ==
    IF i > 5 THEN <<>>
    ELSE LET sum == a[i] + b[i] + carry
         IN  <<sum % LimbBase>> \o SzAddFrom(a, b, i + 1, sum \div LimbBase)

SzAdd(a, b) == SzWrap(SzAddFrom(a, b, 1, 0))

RECURSIVE SzMulLimbFrom(_, _, _, _)
SzMulLimbFrom(a, m, i, carry) ==
    IF i > 5 THEN <<>>
    ELSE LET p == a[i] * m + carry
         IN  <<p % LimbBase>> \o SzMulLimbFrom(a, m, i + 1, p \div LimbBase)

SzShift(a, k) == SzWrap([i \in Limbs |-> IF i <= k THEN 0 ELSE a[i - k]])

RECURSIVE SzMulFrom(_, _, _)
SzMulFrom(a, b, j) ==
    IF j > 5 THEN SzZero
    ELSE IF b[j] = 0 THEN SzMulFrom(a, b, j + 1)
    ELSE SzAdd(SzShift(SzWrap(SzMulLimbFrom(a, b[j], 1, 0)), j - 1),
               SzMulFrom(a, b, j + 1))

\* a * b modulo 2^64
SzMul(a, b) == SzMulFrom(a, b, 1)

RECURSIVE SzCmpFrom(_, _, _)
SzCmpFrom(a, b, i) ==
    IF i = 0 THEN 0
    ELSE IF a[i] < b[i] THEN -1
    ELSE IF a[i] > b[i] THEN 1
    ELSE SzCmpFrom(a, b, i - 1)

SzLess(a, b) == SzCmpFrom(a, b, 5) < 0
SzLeq(a, b) == SzCmpFrom(a, b, 5) <= 0

\* the value fits a non-negative int32
SzFitsInt(s) == s[5] = 0 /\ s[4] = 0 /\ s[3] < 2
SzToNat(s) == s[1] + s[2] * LimbBase + s[3] * LimbBase * LimbBase

\* 2^47 bytes, the user address space of a 64-bit process: operator new[]
\* cannot serve more
SzMaxAlloc == <<0, 0, 0, 4, 0>>

-----------------------------------------------------------------------------
(* int32_t *)

Int32Max == 2147483647

\* the low 32 bits of a size_t read as a two's complement int32_t
Int32OfBits(s) ==
    LET h == s[3] % 4
    IN  (IF h >= 2 THEN h - 4 ELSE h) * (LimbBase * LimbBase)
          + s[2] * LimbBase + s[1]

\* the two's complement bits of an int32_t
BitsOfInt32(a) == <<a % LimbBase, (a \div LimbBase) % LimbBase,
                    (a \div (LimbBase * LimbBase)) % 4, 0, 0>>

\* a * b wrapped to 32 bits
Int32MulWrap(a, b) == Int32OfBits(SzMul(BitsOfInt32(a), BitsOfInt32(b)))

Int32Min == -Int32Max - 1

\* the exact product a * b leaves the int32_t range: the wrapped product is
\* not a times b
Int32MulOverflows(a, b) ==
    IF a = 0 \/ b = 0 \/ a = 1 \/ b = 1 THEN FALSE
    ELSE IF a = Int32Min \/ b = Int32Min THEN TRUE
    ELSE LET w == Int32MulWrap(a, b)
             absb == IF b < 0 THEN -b ELSE b
             absw == IF w < 0 THEN IF w = Int32Min THEN Int32Max ELSE -w ELSE w
             absa == IF a < 0 THEN -a ELSE a
         IN  \/ (w < 0) # ((a < 0) # (b < 0))
             \/ w = Int32Min /\ (Int32Max \div absb) + 1 # absa
             \/ w = Int32Min /\ (Int32Max % absb) + 1 # absb
             \/ w # Int32Min /\ absw \div absb # absa
             \/ w # Int32Min /\ absw % absb # 0

-----------------------------------------------------------------------------
(* src/tensor.h : descriptors *)

Dtypes == {"Int16", "Int32", "Int64", "Bfloat16", "Float16", "Float32", "Float64"}

DeviceTypes == {"CPU", "CUDA"}

dtype_size(dtype) ==
    CASE dtype = "Int16"    -> 2
      [] dtype = "Int32"    -> 4
      [] dtype = "Int64"    -> 8
      [] dtype = "Bfloat16" -> 2
      [] dtype = "Float16"  -> 2
      [] dtype = "Float32"  -> 4
      [] dtype = "Float64"  -> 8

Device(type, index) == [type |-> type, index |-> index]

\* Tensor() = default : empty shape and stride, dtype_ left uninitialised,
\* Device(), requires_grad_ = false, is_owner_ = false, data_ = nullptr
DefaultTensor ==
    [shape_ |-> <<>>, stride_ |-> <<>>, dtype_ |-> "indeterminate",
     device_ |-> Device("CPU", 0), requires_grad_ |-> FALSE,
     is_owner_ |-> FALSE, data_ |-> 0]

\* a slot that holds no Tensor object
NoTensor == [absent |-> TRUE]

Slots == 1..NSlots
BufIds == 1..MaxBufs

IsObject(t) == t # NoTensor

-----------------------------------------------------------------------------
(* src/tensor.cpp : numel, compute_strides *)

RECURSIVE ProductFrom(_, _, _)
ProductFrom(dims, i, acc) ==
    IF i > Len(dims) THEN acc
    ELSE ProductFrom(dims, i + 1, SzMul(acc, SzOfInt32(dims[i])))

numel(dims) == IF dims = <<>> THEN SzZero ELSE ProductFrom(dims, 1, SzOfNat(1))

nbytes(t) == SzMul(numel(t.shape_), SzOfNat(dtype_size(t.dtype_)))

\* the loop of compute_strides from index i down to 1; overflow records that a
\* signed multiplication left the int32_t range (undefined behaviour), after
\* which the values are those of a wrapping build
RECURSIVE StrideLoop(_, _, _, _, _)
StrideLoop(dims, i, stride_val, strides, overflow) ==
    IF i < 1 THEN [strides |-> strides, overflow |-> overflow]
    ELSE StrideLoop(dims, i - 1, Int32MulWrap(stride_val, dims[i]),
                    [strides EXCEPT ![i] = stride_val],
                    overflow \/ Int32MulOverflows(stride_val, dims[i]))

compute_strides(dims) ==
    IF dims = <<>> THEN [strides |-> <<>>, overflow |-> FALSE]
    ELSE StrideLoop(dims, Len(dims), 1, [i \in 1..Len(dims) |-> 0], FALSE)

-----------------------------------------------------------------------------
(* std::shared_ptr<uint8_t> data_ : the control block of a buffer *)

NoBuffer == [allocs |-> 0, size |-> SzZero, use_count |-> 0, deletes |-> 0,
             mem |-> <<>>]

\* the buffer ids no allocation has used yet
FreeBufs(h) == {b \in BufIds : h[b].allocs = 0}
NewBuf(h) == CHOOSE b \in FreeBufs(h) : \A c \in FreeBufs(h) : b <= c

\* shared_ptr(const shared_ptr&) : one more owner
SpAcquire(h, b) ==
    IF b = 0 THEN h ELSE [h EXCEPT ![b].use_count = @ + 1]

\* ~shared_ptr() : one owner less, the deleter runs when none is left
SpRelease(h, b) ==
    IF b = 0 THEN h
    ELSE IF h[b].use_count = 1
         THEN [h EXCEPT ![b].use_count = 0, ![b].deletes = @ + 1,
                        ![b].mem = <<>>]
         ELSE [h EXCEPT ![b].use_count = @ - 1]

-----------------------------------------------------------------------------
(* src/tensor.cpp : allocate_memory and the constructor *)

Ok(t, h) == [thrown |-> "none", t |-> t, heap |-> h]
Throw(e, h) == [thrown |-> e, t |-> NoTensor, heap |-> h]

\* allocate_memory with a silent CPU fallback for any device
allocate_memory_fallback(t, h, nw) ==
    LET total_bytes == CHOOSE n \in {SzMul(numel(t.shape_), SzOfNat(dtype_size(t.dtype_)))} : TRUE
    IN  IF total_bytes = SzZero
        THEN [thrown |-> "runtime_error: empty tensor", t |-> NoTensor, heap |-> h]
        ELSE IF nw = "bad_alloc" \/ ~SzLeq(total_bytes, SzMaxAlloc)
        THEN [thrown |-> "bad_alloc", t |-> NoTensor, heap |-> h]
        ELSE LET b == NewBuf(h)
             IN  [thrown |-> "none",
                  t |-> [t EXCEPT !.data_ = b, !.is_owner_ = TRUE],
                  heap |-> [h EXCEPT ![b] = [allocs |-> @.allocs + 1,
                                             size |-> total_bytes,
                                             use_count |-> 1,
                                             deletes |-> @.deletes,
                                             mem |-> <<>>]]]

\* nw is what operator new[] does when asked: "ok" or "bad_alloc"
allocate_memory(t, h, nw) ==
    LET total_bytes == CHOOSE n \in {nbytes(t)} : TRUE
    IN  IF total_bytes = SzZero
        THEN Throw("runtime_error: empty tensor", h)
        ELSE IF t.device_.type = "CPU"
        THEN IF nw = "bad_alloc" \/ ~SzLeq(total_bytes, SzMaxAlloc)
             THEN Throw("bad_alloc", h)
             ELSE LET b == NewBuf(h)
                  IN  Ok([t EXCEPT !.data_ = b, !.is_owner_ = TRUE],
                         [h EXCEPT ![b] = [allocs |-> @.allocs + 1,
                                           size |-> total_bytes,
                                           use_count |-> 1,
                                           deletes |-> @.deletes,
                                           mem |-> <<>>]])
        ELSE IF t.device_.type = "CUDA"
        THEN Throw("runtime_error: CUDA not implemented", h)
        ELSE Throw("runtime_error: unsupported device", h)

\* the constructor's shape validation: the exception it throws, or "none"
ShapeError_NoDimCheck(shape) ==
    IF shape = <<>> THEN "invalid_argument: empty shape" ELSE "none"

ShapeError(shape) ==
    IF shape = <<>>
    THEN "invalid_argument: empty shape"
    ELSE IF \E i \in 1..Len(shape) : shape[i] <= 0
    THEN "invalid_argument: non-positive dimension"
    ELSE "none"

\* Tensor(shape, dtype, device, requires_grad); ub is what the build does on a
\* signed overflow in compute_strides: "wrap" or "trap"
TensorCtor(h, shape, dtype, device, requires_grad, ub, nw) ==
    IF ShapeError(shape) # "none"
    THEN Throw(ShapeError(shape), h)
    ELSE LET cs == CHOOSE c \in {compute_strides(shape)} : TRUE
             t0 == [shape_ |-> shape, stride_ |-> cs.strides, dtype_ |-> dtype,
                    device_ |-> device, requires_grad_ |-> requires_grad,
                    is_owner_ |-> FALSE, data_ |-> 0]
         IN  IF cs.overflow /\ ub = "trap"
             THEN Throw("trap: signed integer overflow", h)
             ELSE allocate_memory(t0, h, nw)

-----------------------------------------------------------------------------
(* Inputs *)

DimValues == {-1, 0, 1, 2, 3, 32768, 65536}

RECURSIVE SeqsUpTo(_, _)
SeqsUpTo(S, n) ==
    IF n = 0 THEN {<<>>}
    ELSE LET shorter == SeqsUpTo(S, n - 1)
         IN  shorter \cup {Append(q, x) : q \in {r \in shorter : Len(r) = n - 1}, x \in S}

Shapes == SeqsUpTo(DimValues, MaxRank)

Devices == {Device(ty, ix) : ty \in DeviceTypes, ix \in {0, 1}}

NoCall == [op |-> "none", slot |-> 0, src |-> 0, shape |-> <<>>,
           dtype |-> "none", device |-> Device("CPU", 0), idx |-> 0, val |-> "none"]

-----------------------------------------------------------------------------
(* The operations of a Tensor object held in slot s *)

\* Tensor t(shape, dtype, device, requires_grad) into an empty slot
Construct(s, shape, dtype, device, requires_grad) ==
    /\ tensors[s] = NoTensor
    /\ FreeBufs(heap) # {}
    /\ \E ub \in {"wrap", "trap"}, nw \in {"ok", "bad_alloc"} :
         \E r \in {TensorCtor(heap, shape, dtype, device, requires_grad, ub, nw)} :
             /\ thrown' = r.thrown
             /\ heap' = r.heap
             /\ tensors' = [tensors EXCEPT ![s] = r.t]
             /\ ctor_count' = IF r.thrown = "none" THEN ctor_count + 1 ELSE ctor_count
             /\ family' = [family EXCEPT ![s] = IF r.thrown = "none" THEN ctor_count + 1 ELSE 0]
             /\ allocated_here' = [allocated_here EXCEPT ![s] = (r.thrown = "none")]

\* ~Tensor() at the end of the object's scope
Destroy(s) ==
    /\ IsObject(tensors[s])
    /\ heap' = SpRelease(heap, tensors[s].data_)
    /\ tensors' = [tensors EXCEPT ![s] = NoTensor]
    /\ family' = [family EXCEPT ![s] = 0]
    /\ allocated_here' = [allocated_here EXCEPT ![s] = FALSE]
    /\ thrown' = "none"
    /\ UNCHANGED ctor_count

\* t.data<T>()[idx] = val, T the element type of the dtype, idx in range
Write(s, idx, val) ==
    /\ IsObject(tensors[s])
    /\ tensors[s].data_ # 0
    /\ SzLess(SzOfNat(idx), numel(tensors[s].shape_))
    /\ heap' = [heap EXCEPT ![tensors[s].data_].mem = (idx :> val) @@ @]
    /\ thrown' = "none"
    /\ UNCHANGED <<tensors, family, allocated_here, ctor_count>>

\* t.data<T>()[idx] read back: the value last written, "undef" before any
ReadAt(h, t, idx) ==
    IF t.data_ = 0 THEN "null"
    ELSE IF idx \in DOMAIN h[t.data_].mem THEN h[t.data_].mem[idx] ELSE "undef"

InitCommon ==
    /\ tensors = [s \in Slots |-> NoTensor]
    /\ heap = [b \in BufIds |-> NoBuffer]
    /\ call = NoCall
    /\ thrown = "none"
    /\ family = [s \in Slots |-> 0]
    /\ allocated_here = [s \in Slots |-> FALSE]
    /\ ctor_count = 0
    /\ stensor = NoTensor
    /\ sheap = [allocs |-> 0, size |-> SzZero, use_count |-> 0, deletes |-> 0,
               mem |-> <<>>, overrun |-> 0]

-----------------------------------------------------------------------------
(* src/tensor.h : the defaulted copy and move operations *)

\* a copy that duplicates the bytes into a buffer of its own
CopyCtor_Deep(h, other) ==
    IF other.data_ = 0 \/ FreeBufs(h) = {}
    THEN [t |-> other, heap |-> SpAcquire(h, other.data_)]
    ELSE LET b == NewBuf(h)
         IN  [t |-> [other EXCEPT !.data_ = b],
              heap |-> [h EXCEPT ![b] = [allocs |-> 1, size |-> h[other.data_].size,
                                         use_count |-> 1, deletes |-> 0,
                                         mem |-> h[other.data_].mem]]]

\* a copy that takes the pointer without counting the new owner
CopyCtor_NoAcquire(h, other) == [t |-> other, heap |-> h]

\* Tensor(const Tensor& other) = default : member-wise copy, data_ shared
CopyCtor(h, other) == [t |-> other, heap |-> SpAcquire(h, other.data_)]

\* what a move leaves in its source: the vectors emptied, data_ null, the
\* scalar members as they were
MovedFrom(other) == [other EXCEPT !.shape_ = <<>>, !.stride_ = <<>>, !.data_ = 0]

\* Tensor(Tensor&& other) = default
MoveCtor(h, other) == [t |-> other, src |-> MovedFrom(other), heap |-> h]

\* Tensor& operator=(const Tensor& other) = default, this # &other
CopyAssign(h, self, other) ==
    [t |-> other, heap |-> SpRelease(SpAcquire(h, other.data_), self.data_)]

\* Tensor& operator=(Tensor&& other) = default, this # &other
MoveAssign(h, self, other) ==
    [t |-> other, src |-> MovedFrom(other), heap |-> SpRelease(h, self.data_)]

\* Tensor t;
DefaultConstruct(s) ==
    /\ tensors[s] = NoTensor
    /\ tensors' = [tensors EXCEPT ![s] = DefaultTensor]
    /\ allocated_here' = [allocated_here EXCEPT ![s] = FALSE]
    /\ thrown' = "none"
    /\ UNCHANGED <<heap, family, ctor_count>>

\* Tensor t(other);
CopyConstruct(s, o) ==
    /\ tensors[s] = NoTensor
    /\ IsObject(tensors[o])
    /\ \E r \in {CopyCtor(heap, tensors[o])} :
         /\ tensors' = [tensors EXCEPT ![s] = r.t]
         /\ heap' = r.heap
    /\ family' = [family EXCEPT ![s] = family[o]]
    /\ allocated_here' = [allocated_here EXCEPT ![s] = FALSE]
    /\ thrown' = "none"
    /\ UNCHANGED ctor_count

\* Tensor t(std::move(other));
MoveConstruct(s, o) ==
    /\ tensors[s] = NoTensor
    /\ IsObject(tensors[o])
    /\ \E r \in {MoveCtor(heap, tensors[o])} :
         /\ tensors' = [tensors EXCEPT ![s] = r.t, ![o] = r.src]
         /\ heap' = r.heap
    /\ family' = [family EXCEPT ![s] = family[o], ![o] = 0]
    /\ allocated_here' = [allocated_here EXCEPT ![s] = allocated_here[o], ![o] = FALSE]
    /\ thrown' = "none"
    /\ UNCHANGED ctor_count

\* t = other;  (t = t changes nothing)
CopyAssignTo(s, o) ==
    /\ IsObject(tensors[s])
    /\ IsObject(tensors[o])
    /\ IF s = o
       THEN UNCHANGED <<tensors, heap, family, allocated_here>>
       ELSE /\ \E r \in {CopyAssign(heap, tensors[s], tensors[o])} :
                 /\ tensors' = [tensors EXCEPT ![s] = r.t]
                 /\ heap' = r.heap
            /\ family' = [family EXCEPT ![s] = family[o]]
            /\ allocated_here' = [allocated_here EXCEPT ![s] = FALSE]
    /\ thrown' = "none"
    /\ UNCHANGED ctor_count

\* t = std::move(other);  (a client never moves an object onto itself)
MoveAssignTo(s, o) ==
    /\ IsObject(tensors[s])
    /\ IsObject(tensors[o])
    /\ s # o
    /\ \E r \in {MoveAssign(heap, tensors[s], tensors[o])} :
         /\ tensors' = [tensors EXCEPT ![s] = r.t, ![o] = r.src]
         /\ heap' = r.heap
    /\ family' = [family EXCEPT ![s] = family[o], ![o] = 0]
    /\ allocated_here' = [allocated_here EXCEPT ![s] = allocated_here[o], ![o] = FALSE]
    /\ thrown' = "none"
    /\ UNCHANGED ctor_count

-----------------------------------------------------------------------------
(* A client that holds up to NSlots Tensor objects and uses them freely; a  *)
(* new object takes the first slot that holds none                          *)

FirstEmpty(s) ==
    /\ tensors[s] = NoTensor
    /\ \A o \in Slots : o < s => tensors[o] # NoTensor

ClientShapes == {<<>>, <<2>>}
ClientDevices == {Device("CPU", 0)}
ClientIndices == {0}
ClientValues == {"1.0f"}

Client_Construct ==
    /\ \E s \in Slots, shape \in ClientShapes, device \in ClientDevices :
         FirstEmpty(s) /\ Construct(s, shape, "Float32", device, FALSE)
    /\ call' = NoCall
    /\ UNCHANGED <<pc, stensor, sheap>>

Client_Default ==
    /\ \E s \in Slots : FirstEmpty(s) /\ DefaultConstruct(s)
    /\ call' = NoCall
    /\ UNCHANGED <<pc, stensor, sheap>>

Client_Copy ==
    /\ \E s \in Slots, o \in Slots : FirstEmpty(s) /\ CopyConstruct(s, o)
    /\ call' = NoCall
    /\ UNCHANGED <<pc, stensor, sheap>>

Client_Move ==
    /\ \E s \in Slots, o \in Slots : FirstEmpty(s) /\ MoveConstruct(s, o)
    /\ call' = NoCall
    /\ UNCHANGED <<pc, stensor, sheap>>

Client_CopyAssign ==
    /\ \E s \in Slots, o \in Slots : CopyAssignTo(s, o)
    /\ call' = NoCall
    /\ UNCHANGED <<pc, stensor, sheap>>

Client_MoveAssign ==
    /\ \E s \in Slots, o \in Slots : MoveAssignTo(s, o)
    /\ call' = NoCall
    /\ UNCHANGED <<pc, stensor, sheap>>

Client_Write ==
    /\ \E s \in Slots, idx \in ClientIndices, val \in ClientValues :
         /\ Write(s, idx, val)
         /\ call' = [NoCall EXCEPT !.op = "write", !.slot = s, !.idx = idx, !.val = val]
    /\ UNCHANGED <<pc, stensor, sheap>>

Client_Destroy ==
    /\ \E s \in Slots : Destroy(s)
    /\ call' = NoCall
    /\ UNCHANGED <<pc, stensor, sheap>>

InitL == pc = "client" /\ InitCommon

NextL ==
    \/ Client_Construct \/ Client_Default \/ Client_Copy \/ Client_Move
    \/ Client_CopyAssign \/ Client_MoveAssign \/ Client_Write \/ Client_Destroy

SpecL == InitL /\ [][NextL]_vars

-----------------------------------------------------------------------------
(* src/main_tensor.cpp : main, for any shape, dtype and device *)

Main_Construct ==
    /\ pc = "start"
    /\ \E shape \in Shapes, dtype \in Dtypes, device \in Devices, rg \in BOOLEAN :
         /\ Construct(1, shape, dtype, device, rg)
         /\ call' = [NoCall EXCEPT !.op = "construct", !.slot = 1, !.shape = shape,
                                   !.dtype = dtype, !.device = device]
    /\ pc' = IF thrown' = "none" THEN "constructed"
             ELSE IF thrown' = "trap: signed integer overflow" THEN "aborted"
             ELSE "caught"
    /\ UNCHANGED <<stensor, sheap>>

Main_Access ==
    /\ pc = "constructed"
    /\ Write(1, 0, "3.14f")
    /\ pc' = "accessed"
    /\ UNCHANGED <<call, stensor, sheap>>

Main_ScopeExit ==
    /\ pc = "accessed"
    /\ Destroy(1)
    /\ pc' = "done"
    /\ UNCHANGED <<call, stensor, sheap>>

Main_Catch ==
    /\ pc = "caught"
    /\ pc' = "done"
    /\ UNCHANGED <<tensors, heap, call, thrown, family, allocated_here, ctor_count,
                   stensor, sheap>>

InitR == pc = "start" /\ InitCommon

NextR == Main_Construct \/ Main_Access \/ Main_ScopeExit \/ Main_Catch

SpecR == InitR /\ [][NextR]_vars

-----------------------------------------------------------------------------
(* src/main_folder/tensor.h : the Float32/Int32 Tensor. Its dims and strides *)
(* are size_t values; a buffer is modelled byte by byte.                     *)

DtypesS == {"Float32", "Int32"}

\* 0xAAAAAAAAAAAAAAAB, the size_t with 3 * x = 1 (mod 2^64)
SzInvThree == <<10923, 21845, 10922, 21845, 10>>

DimValuesS == {SzOfNat(0), SzOfNat(1), SzOfNat(2), SzOfNat(3), SzInvThree}

ShapesS == SeqsUpTo(DimValuesS, MaxRankS)

\* sizeof(T) of the element types a caller may hand in: char, short,
\* float or int, double
ElemSizes == {1, 2, 4, 8}

\* sizeof(std::vector<U>)
SizeofVector == 24

\* the flat vector 0, 1, ..., n-1
Iota(n) == [i \in 1..n |-> i - 1]

\* nested vectors of the given depth, depth 0 being a scalar
RECURSIVE NestedVecs(_)
NestedVecs(depth) ==
    IF depth = 0 THEN {0} ELSE SeqsUpTo(NestedVecs(depth - 1), MaxLen)

RECURSIVE infer_shape(_, _)
infer_shape(vec, depth) ==
    IF depth = 0 THEN <<>>
    ELSE IF vec = <<>> THEN <<SzOfNat(0)>>
    ELSE <<SzOfNat(Len(vec))>> \o infer_shape(vec[1], depth - 1)

RECURSIVE flatten_recursive(_, _, _)
flatten_recursive(value, depth, out) ==
    IF depth = 0 THEN Append(out, value)
    ELSE LET RECURSIVE Each(_, _)
             Each(i, acc) ==
                 IF i > Len(value) THEN acc
                 ELSE Each(i + 1, flatten_recursive(value[i], depth - 1, acc))
         IN  Each(1, out)

flatten(vec, depth) == flatten_recursive(vec, depth, <<>>)

compute_numel(dims) ==
    IF dims = <<>> THEN SzZero
    ELSE LET RECURSIVE Prod(_, _)
             Prod(i, acc) == IF i > Len(dims) THEN acc
                             ELSE Prod(i + 1, SzMul(acc, dims[i]))
         IN  Prod(1, SzOfNat(1))

\* compute_strides of the allocate-only constructor: strides_ stays as it is
\* for an empty shape
compute_strides_S(dims, strides) ==
    IF dims = <<>> THEN strides
    ELSE LET RECURSIVE Loop(_, _, _)
             Loop(i, stride_val, acc) ==
                 IF i < 1 THEN acc
                 ELSE Loop(i - 1, SzMul(stride_val, dims[i]),
                           [acc EXCEPT ![i] = stride_val])
         IN  Loop(Len(dims), SzOfNat(1), [i \in 1..Len(dims) |-> SzZero])

element_size(dtype) ==
    CASE dtype = "Float32" -> 4
      [] dtype = "Int32"   -> 4

\* the members a constructor's initialiser list and the default member
\* initialisers leave before its body runs
MembersS(shape, dtype, device) ==
    [shape_ |-> shape, strides_ |-> <<>>, dtype_ |-> dtype, device_ |-> device,
     is_owner_ |-> TRUE, data_ |-> 0]

OkS(t, b) == [thrown |-> "none", t |-> t, buf |-> b]
ThrowS(e, b) == [thrown |-> e, t |-> NoTensor, buf |-> b]

allocate_memory_S(t, buf, nw) ==
    LET total_bytes == CHOOSE n \in {SzMul(compute_numel(t.shape_),
                                           SzOfNat(element_size(t.dtype_)))} : TRUE
    IN  IF total_bytes = SzZero
        THEN ThrowS("runtime_error: zero-size tensor", buf)
        ELSE IF t.device_.type = "CPU"
        THEN IF nw = "bad_alloc" \/ ~SzLeq(total_bytes, SzMaxAlloc)
             THEN ThrowS("bad_alloc", buf)
             ELSE OkS([t EXCEPT !.data_ = 1, !.is_owner_ = TRUE],
                      [allocs |-> buf.allocs + 1, size |-> total_bytes,
                       use_count |-> 1, deletes |-> buf.deletes,
                       mem |-> [j \in 1..SzToNat(total_bytes) |-> "undef"],
                       overrun |-> 0])
        ELSE ThrowS("runtime_error: CUDA not implemented", buf)

\* the bytes of a vector whose elements are size bytes each
BytesOf(vec, size) ==
    [j \in 1..(Len(vec) * size) |-> <<vec[((j - 1) \div size) + 1], (j - 1) % size>>]

\* std::memcpy(data_.get(), src, n): n bytes, those past the end of src being
\* whatever lies there, those past the end of the buffer landing outside it
memcpy(buf, src, n) ==
    [buf EXCEPT !.mem = [j \in 1..Len(buf.mem) |->
                            IF j <= n
                            THEN IF j <= Len(src) THEN src[j] ELSE "garbage"
                            ELSE buf.mem[j]],
                !.overrun = IF n > Len(buf.mem) THEN n - Len(buf.mem) ELSE 0]

\* the copy of a constructor body; ub is what an out-of-bounds memcpy does to
\* the process: "corrupt" (it goes on) or "crash"
CopyIn(r, src, n, ub) ==
    IF r.thrown # "none" THEN r
    ELSE LET b == memcpy(r.buf, src, n)
         IN  IF (b.overrun > 0 \/ n > Len(src)) /\ ub = "crash"
             THEN ThrowS("crash: out-of-bounds memcpy", b)
             ELSE OkS(r.t, b)

\* sizeof(typename T::value_type) in the nested constructor, T the element
\* type of the outer vector
SizeofValueType(depth, leaf_size) == IF depth = 2 THEN leaf_size ELSE SizeofVector

\* Tensor(const std::vector<T>& vec, Dtype, const Device&), T a vector
NestedCtor(buf, vec, depth, leaf_size, dtype, device, nw, ub) ==
    LET t0 == MembersS(infer_shape(vec, depth), dtype, device)
        flat_data == flatten(vec, depth)
    IN  CopyIn(allocate_memory_S(t0, buf, nw), BytesOf(flat_data, leaf_size),
               Len(flat_data) * SizeofValueType(depth, leaf_size), ub)

\* the validation of the flat constructor: the exception thrown, or "none"
FlatError(n, shape) ==
    IF \E i \in 1..Len(shape) : shape[i] = SzZero
    THEN "invalid_argument: non-positive dimension"
    ELSE IF SzOfNat(n) # (LET RECURSIVE Exp(_, _)
                              Exp(i, acc) == IF i > Len(shape) THEN acc
                                             ELSE Exp(i + 1, SzMul(acc, shape[i]))
                          IN  Exp(1, SzOfNat(1)))
    THEN "invalid_argument: size mismatch"
    ELSE "none"

\* Tensor(const std::vector<T>& vec, const Shape&, Dtype, const Device&)
FlatCtor(buf, vec, elem_size, shape, dtype, device, nw, ub) ==
    IF FlatError(Len(vec), shape) # "none"
    THEN ThrowS(FlatError(Len(vec), shape), buf)
    ELSE CopyIn(allocate_memory_S(MembersS(shape, dtype, device), buf, nw),
                BytesOf(vec, elem_size), Len(vec) * elem_size, ub)

\* Tensor(const Shape&, Dtype, const Device&)
AllocCtor(buf, shape, dtype, device, nw) ==
    LET t0 == MembersS(shape, dtype, device)
    IN  allocate_memory_S([t0 EXCEPT !.strides_ = compute_strides_S(shape, @)],
                          buf, nw)

-----------------------------------------------------------------------------
(* A program that builds one Tensor of src/main_folder/tensor.h by one of    *)
(* its three constructors, as src/main_folder/main.cpp does                  *)

DevicesS == {[type |-> "CPU"], [type |-> "CUDA"]}

Finish(r) ==
    /\ thrown' = r.thrown
    /\ stensor' = r.t
    /\ sheap' = r.buf
    /\ pc' = IF r.thrown = "none" THEN "built" ELSE "terminated"
    /\ UNCHANGED <<tensors, heap, family, allocated_here, ctor_count>>

S_Nested ==
    /\ pc = "start"
    /\ \E depth \in 2..MaxDepth, leaf_size \in {4, 8}, dtype \in DtypesS,
          device \in DevicesS, nw \in {"ok", "bad_alloc"}, ub \in {"corrupt", "crash"} :
         \E vec \in NestedVecs(depth) :
            /\ \E r \in {NestedCtor(sheap, vec, depth, leaf_size, dtype, device, nw, ub)} :
                 Finish(r)
            /\ call' = [op |-> "nested", vec |-> vec, depth |-> depth,
                        elem_size |-> SizeofValueType(depth, leaf_size),
                        shape |-> infer_shape(vec, depth),
                        dtype |-> dtype, device |-> device]

S_Flat ==
    /\ pc = "start"
    /\ \E n \in 0..MaxFlat, elem_size \in ElemSizes, shape \in ShapesS,
          dtype \in DtypesS, device \in DevicesS,
          nw \in {"ok", "bad_alloc"}, ub \in {"corrupt", "crash"} :
         /\ \E r \in {FlatCtor(sheap, Iota(n), elem_size, shape, dtype, device, nw, ub)} :
              Finish(r)
         /\ call' = [op |-> "flat", vec |-> Iota(n), depth |-> 1,
                     elem_size |-> elem_size, shape |-> shape,
                     dtype |-> dtype, device |-> device]

S_Alloc ==
    /\ pc = "start"
    /\ \E shape \in ShapesS, dtype \in DtypesS, device \in DevicesS,
          nw \in {"ok", "bad_alloc"} :
         /\ \E r \in {AllocCtor(sheap, shape, dtype, device, nw)} : Finish(r)
         /\ call' = [op |-> "alloc", vec |-> <<>>, depth |-> 0, elem_size |-> 0,
                     shape |-> shape, dtype |-> dtype, device |-> device]

\* the Tensor goes out of scope at the end of main
S_ScopeExit ==
    /\ pc = "built"
    /\ pc' = "done"
    /\ stensor' = NoTensor
    /\ sheap' = [sheap EXCEPT !.use_count = 0, !.deletes = @ + 1, !.mem = <<>>]
    /\ UNCHANGED <<tensors, heap, call, thrown, family, allocated_here, ctor_count>>

InitS == pc = "start" /\ InitCommon

NextS == S_Nested \/ S_Flat \/ S_Alloc \/ S_ScopeExit

SpecS == InitS /\ [][NextS]_vars

-----------------------------------------------------------------------------
(* Properties of src/tensor.h, src/tensor.cpp *)

\* every Tensor object that holds a buffer
Holders == {s \in Slots : IsObject(tensors[s]) /\ tensors[s].data_ # 0}

\* c is exactly a times b, as integers
IsProduct(c, a, b) == ~Int32MulOverflows(a, b) /\ c = Int32MulWrap(a, b)

RECURSIVE ProductFitsInt32(_, _, _)
ProductFitsInt32(dims, i, p) ==
    IF i > Len(dims) THEN TRUE
    ELSE /\ p <= Int32Max \div dims[i]
         /\ ProductFitsInt32(dims, i + 1, p * dims[i])

ValidShape(shape) == shape # <<>> /\ \A i \in 1..Len(shape) : shape[i] >= 1

NothingAllocated == \A b \in BufIds : heap[b].allocs = 0

\* C1: every tensor built by Tensor(shape, dtype, device) has a stride as long
\* as its shape, with stride[rank-1] = 1 and stride[i] = stride[i+1] * dims[i+1]
\* for every i < rank-1, the strides being int32_t values.
C1_StrideLaw ==
    \A s \in Holders :
        LET dims == tensors[s].shape_
            st == tensors[s].stride_
            n == Len(dims)
        IN  /\ Len(st) = n
            /\ st[n] = 1
            /\ \A i \in 1..(n - 1) : IsProduct(st[i], st[i + 1], dims[i + 1])
            /\ \A i \in 1..n : Int32Min <= st[i] /\ st[i] <= Int32Max

\* C6: Tensor(shape, dtype, device) with an empty shape or a dimension <= 0
\* fails with an error and allocates nothing; every tensor it does build has
\* rank >= 1, every dim >= 1, numel() >= 1 and a buffer of
\* nbytes() = numel() * dtype_size(dtype) > 0 bytes.
C6_InvalidShapeRejected ==
    /\ call.op = "construct" /\ ~ValidShape(call.shape)
         => /\ thrown # "none"
            /\ tensors[call.slot] = NoTensor
            /\ NothingAllocated
    /\ \A s \in Slots :
         IsObject(tensors[s]) =>
            LET t == tensors[s]
            IN  /\ Len(t.shape_) >= 1
                /\ \A i \in 1..Len(t.shape_) : t.shape_[i] >= 1
                /\ numel(t.shape_) # SzZero
                /\ t.data_ # 0
                /\ heap[t.data_].size = SzMul(numel(t.shape_), SzOfNat(dtype_size(t.dtype_)))
                /\ heap[t.data_].size # SzZero

C6_Witness ==
    /\ call.op = "construct"
    /\ call.shape = <<0, 0, 0>>
    /\ thrown = "invalid_argument: non-positive dimension"

\* C8 as stated: with device type CUDA the construction fails with the
\* unsupported-device error whatever the shape and dtype, builds no tensor and
\* allocates nothing.
C8_CudaAlwaysDeviceError ==
    call.op = "construct" /\ call.device.type = "CUDA"
        => /\ thrown = "runtime_error: CUDA not implemented"
           /\ tensors[call.slot] = NoTensor
           /\ NothingAllocated

\* C8 amended: with device type CUDA the construction always fails, builds no
\* tensor and allocates nothing; the failure is the unsupported-device error
\* when the shape is non-empty with every dim >= 1 and at most 2^31-1
\* elements, and the shape validation's invalid-argument error when the shape
\* is empty or has a dim <= 0.
C8_CudaNeverBuilds ==
    call.op = "construct" /\ call.device.type = "CUDA"
        => /\ thrown # "none"
           /\ tensors[call.slot] = NoTensor
           /\ NothingAllocated
           /\ ValidShape(call.shape) /\ ProductFitsInt32(call.shape, 1, 1)
                => thrown = "runtime_error: CUDA not implemented"
           /\ ~ValidShape(call.shape)
                => thrown \in {"invalid_argument: empty shape",
                               "invalid_argument: non-positive dimension"}

C8_Witness ==
    /\ call.op = "construct"
    /\ call.device.type = "CUDA"
    /\ call.shape = <<2, 3>>
    /\ thrown = "runtime_error: CUDA not implemented"

\* C3: the tensors of one copy family share one buffer: an element written
\* through data<T>() of one member is read back through every other member,
\* and no tensor of another family sees the write.
C3_CopySharesBuffer ==
    [][call'.op = "write" =>
         \A s \in Slots :
            IsObject(tensors'[s]) /\ family'[s] # 0 =>
                IF family'[s] = family'[call'.slot]
                THEN ReadAt(heap', tensors'[s], call'.idx) = call'.val
                ELSE \A i \in ClientIndices :
                        ReadAt(heap', tensors'[s], i) = ReadAt(heap, tensors[s], i)]_vars

\* a write through a copy while the original and a separately built tensor live
C3_Witness ==
    /\ call.op = "write"
    /\ ~allocated_here[call.slot]
    /\ \E s \in Slots : s # call.slot /\ allocated_here[s] /\ family[s] = family[call.slot]
    /\ \E s \in Holders : family[s] # family[call.slot]

\* C4: a buffer comes from exactly one allocation, is not released while a
\* live Tensor refers to it, and has been released exactly once as soon as no
\* Tensor refers to it any more.
C4_BufferLifetime ==
    \A b \in BufIds :
        LET refs == {s \in Holders : tensors[s].data_ = b}
        IN  /\ heap[b].allocs <= 1
            /\ heap[b].deletes <= heap[b].allocs
            /\ refs # {} => heap[b].allocs = 1 /\ heap[b].deletes = 0
            /\ refs = {} /\ heap[b].allocs = 1 => heap[b].deletes = 1

\* one buffer released after its last reference went, another still shared
C4_Witness ==
    /\ \E b \in BufIds : heap[b].deletes = 1
    /\ \E b \in BufIds : Cardinality({s \in Holders : tensors[s].data_ = b}) >= 2

\* C5: is_owner() is true for the tensor whose construction allocated the
\* buffer, false for a tensor that got its buffer by copying another tensor,
\* and false for a default-constructed tensor.
C5_OwnerFlag ==
    \A s \in Slots :
        IsObject(tensors[s]) =>
            /\ tensors[s].data_ # 0 => tensors[s].is_owner_ = allocated_here[s]
            /\ tensors[s] = DefaultTensor => ~tensors[s].is_owner_

-----------------------------------------------------------------------------
(* Properties of src/main_folder/tensor.h *)

\* the constructor call has returned or thrown, and the Tensor is in scope
Returned == pc \in {"built", "terminated"}

\* the 4-byte element at linear offset k of the buffer
ElementAt(k) == sheap.mem[4 * k + 1][1]

RECURSIVE SmallProduct(_, _)
SmallProduct(dims, i) ==
    IF i > Len(dims) THEN 1 ELSE SzToNat(dims[i]) * SmallProduct(dims, i + 1)

\* the dims are all positive and their product, as a number, is n
ExactProductIs(dims, n) ==
    /\ \A i \in 1..Len(dims) :
          /\ SzFitsInt(dims[i])
          /\ 1 <= SzToNat(dims[i])
          /\ SzToNat(dims[i]) <= n
    /\ SmallProduct(dims, 1) = n

\* C2: after any of the three constructors the strides are as many as the dims
\* and are the row-major strides of the shape, so that element (i, j) of a
\* tensor built from flat data with shape [2,3] is read back at linear offset
\* i*stride[0] + j*stride[1].
C2_StrideFollowsShape ==
    pc = "built" =>
        LET dims == stensor.shape_
            st == stensor.strides_
            n == Len(dims)
        IN  /\ Len(st) = n
            /\ st[n] = SzOfNat(1)
            /\ \A i \in 1..(n - 1) : st[i] = SzMul(st[i + 1], dims[i + 1])
            /\ call.op = "flat" /\ dims = <<SzOfNat(2), SzOfNat(3)>> /\ call.elem_size = 4
                 => \A i \in 0..1, j \in 0..2 :
                       ElementAt(i * SzToNat(st[1]) + j * SzToNat(st[2])) = call.vec[i * 3 + j + 1]

\* C7: the flat constructor builds a tensor only when the shape is non-empty,
\* every dim is positive and the data length is exactly the product of the
\* dims, and then the buffer holds the data elements in their order; in every
\* other case it fails with an error and builds nothing.
C7_FlatConstructionStrict ==
    call.op = "flat" /\ Returned =>
        LET n == Len(call.vec)
            fits == call.shape # <<>> /\ ExactProductIs(call.shape, n)
            bytes == BytesOf(call.vec, call.elem_size)
        IN  /\ pc = "built" => fits
            /\ pc = "built" =>
                  /\ sheap.overrun = 0
                  /\ Len(sheap.mem) >= Len(bytes)
                  /\ \A j \in 1..Len(bytes) : sheap.mem[j] = bytes[j]
            /\ ~fits => thrown # "none" /\ stensor = NoTensor

\* C9: the nested constructor fails with an error and builds nothing whenever
\* the flattened data has another number of elements than the inferred shape,
\* and never copies more elements than the inferred shape's numel.
C9_NestedMismatchFails ==
    call.op = "nested" /\ Returned =>
        LET count == SzOfNat(Len(flatten(call.vec, call.depth)))
        IN  /\ count # compute_numel(call.shape)
                 => /\ thrown # "none"
                    /\ stensor = NoTensor
            /\ pc = "built" => SzLeq(count, compute_numel(call.shape))

\* C10: the flat constructor never copies more bytes, flat.size() * sizeof(T),
\* than it allocated, numel(shape) * element_size(dtype).
C10_CopyWithinAllocation ==
    call.op = "flat" /\ sheap.allocs = 1 =>
        SzLeq(SzOfNat(Len(call.vec) * call.elem_size), sheap.size)

====
